---- MODULE Spec2Model ----
(***************************************************************************)
(* Model of salesandprofitability.py: a seeded, strictly sequential batch  *)
(* script that synthesizes sales transactions, derives financial metrics,  *)
(* asserts two integrity conditions, builds a star schema, aggregates it   *)
(* and computes an RFM table.                                              *)
(*                                                                         *)
(* Encodings (fixed point, exact):                                         *)
(*   dates         day numbers, 0 = 2023-01-01 (the script's start_date)   *)
(*   Units_Sold    after line 63 in tenths of a unit (the script multiplies*)
(*                 an integer by 1.0, 1.2, 1.3 or 1.5)                     *)
(*   Unit_Price,   cents                                                   *)
(*   Unit_Cost                                                             *)
(*   Total_Sales,  tenths of a cent (tenths of a unit times cents)         *)
(*   Total_Cost,                                                           *)
(*   Profit                                                                *)
(*   Profit_Margin percent                                                 *)
(*   Month_Year,   year * 100 + month for the string "YYYY-MM"             *)
(*   Cohort_Month                                                          *)
(*   Quarter       year * 10 + quarter for the string "YYYYQq"             *)
(* The random generators are seeded (lines 7-8), so the whole stream of    *)
(* draws is fixed when the script starts: rng holds that stream, one       *)
(* sequence per drawing statement, and draws counts how many were taken    *)
(* by each statement.                                                      *)
(***************************************************************************)
EXTENDS Integers, Sequences, FiniteSets, TLC

VARIABLES
    num_records,      \* line 11
    products,         \* line 12
    regions,          \* line 13
    start_date,       \* line 14
    end_date,         \* line 15
    rng,              \* the seeded stream of draws (lines 7-8)
    draws,            \* number of draws taken so far, per drawing statement
    pc,               \* position of the script
    err,              \* the exception that ended the script, "" if none
    df,               \* lines 53-78
    product_dim,      \* lines 85-86
    region_dim,       \* lines 88-89
    fact_table,       \* lines 92-95
    sales_by_product, \* lines 98-104
    sales_trends,     \* lines 106-109
    sales_by_region,  \* lines 111-116
    rfm,              \* lines 119-124
    exported          \* files written by lines 127-136

vars == <<num_records, products, regions, start_date, end_date, rng, draws, pc,
          err, df, product_dim, region_dim, fact_table, sales_by_product,
          sales_trends, sales_by_region, rfm, exported>>

----------------------------------------------------------------------------
(* Bounds of the exploration *)

MaxRecords == 2

\* Catalogs tried for line 12 and line 13: the empty one and a prefix of the
\* script's own; AllProducts / AllRegions are the script's.
AllProducts == <<"Laptop", "Smartphone", "Tablet", "Headphones", "Monitor">>
AllRegions == <<"North", "South", "East", "West">>
ProductCatalogs == {<<>>, SubSeq(AllProducts, 1, 2)}
RegionCatalogs == {<<>>, SubSeq(AllRegions, 1, 2)}

\* 2023-01-01 and 2024-12-31 as day numbers
StartDay == 0
EndDay == 730
DateRanges == {<<StartDay, EndDay>>, <<EndDay, StartDay>>}

\* What the draws are let to return in the runs of several records:
\* offsets of random.randint(0, date_range)
\*   0   2023-01-01 Sunday, January, first of month
\*   73  2023-03-15 Wednesday
\*   89  2023-03-31 Friday
DateSamples == {0, 73, 89}
UnitSamples == {7}                  \* of np.random.randint(1, 50)
CustomerSamples == {10000, 99998}   \* of np.random.randint(10000, 99999)
PriceSamples == {9}                 \* tenths of [0, 1) behind np.random.uniform(low, high)
CostSamples == {60, 89}             \* percent, of np.random.uniform(0.6, 0.9)

\* What they are let to return in the runs of one record with the script's own
\* parameters: every date of the window, or every quantity on the dates
\*   0   2023-01-01 Sunday, January, first of month
\*   73  2023-03-15 Wednesday
\*   181 2023-07-01 Saturday, first of month
\*   335 2023-12-02 Saturday, December
\*   730 2024-12-31 Tuesday, December
AllOffsets == StartDay..EndDay
CalendarSamples == {0, 73, 181, 335, 730}
AllUnits == 1..49
WidePriceSamples == {0, 9}
WideCostSamples == {60, 75, 89}

----------------------------------------------------------------------------
(* Calendar: datetime, timedelta, .dt.dayofweek, .dt.month, to_period *)

IsLeap(y) == (y % 4 = 0 /\ y % 100 # 0) \/ y % 400 = 0

DaysInMonth(y, m) ==
    IF m = 2 THEN (IF IsLeap(y) THEN 29 ELSE 28)
    ELSE IF m \in {4, 6, 9, 11} THEN 30 ELSE 31

RECURSIVE Forward(_, _, _)
Forward(y, m, d0) ==
    IF d0 < DaysInMonth(y, m) THEN [year |-> y, month |-> m, day |-> d0 + 1]
    ELSE IF m = 12 THEN Forward(y + 1, 1, d0 - DaysInMonth(y, m))
    ELSE Forward(y, m + 1, d0 - DaysInMonth(y, m))

RECURSIVE Backward(_, _, _)
Backward(y, m, d0) ==
    LET py == IF m = 1 THEN y - 1 ELSE y
        pm == IF m = 1 THEN 12 ELSE m - 1
        r == d0 + DaysInMonth(py, pm)
    IN IF r >= 0 THEN [year |-> py, month |-> pm, day |-> r + 1]
       ELSE Backward(py, pm, r)

\* the calendar date of day number n (0 = datetime(2023, 1, 1))
ToDate(n) == IF n >= 0 THEN Forward(2023, 1, n) ELSE Backward(2023, 1, n)

\* .dt.dayofweek: Monday = 0 ... Sunday = 6; 2023-01-01 is a Sunday
dayofweek(n) == (n + 6) % 7

\* .dt.to_period('M').astype(str)
PeriodM(n) == ToDate(n).year * 100 + ToDate(n).month

\* .dt.to_period('Q').astype(str)
PeriodQ(n) == ToDate(n).year * 10 + ((ToDate(n).month - 1) \div 3) + 1

\* pandas roll_convention(other.day, n, compare_day = 1) for an offset n <= 0
RollConvention(day, n) == IF n <= 0 /\ day > 1 THEN n + 1 ELSE n

\* date + pd.offsets.MonthBegin(k) for k in {-1}: the first day of the month
\* RollConvention(day, k) months away
MonthBegin(n, k) ==
    LET c == ToDate(n)
        first == n - (c.day - 1)
        py == IF c.month = 1 THEN c.year - 1 ELSE c.year
        pm == IF c.month = 1 THEN 12 ELSE c.month - 1
    IN IF RollConvention(c.day, k) = 0 THEN first
       ELSE first - DaysInMonth(py, pm)

----------------------------------------------------------------------------
(* Helpers *)

Min(a, b) == IF a <= b THEN a ELSE b

Max(a, b) == IF a >= b THEN a ELSE b

SetMax(S) == CHOOSE x \in S : \A y \in S : y <= x

SetMin(S) == CHOOSE x \in S : \A y \in S : x <= y

RECURSIVE SumSeq(_)
SumSeq(s) == IF s = <<>> THEN 0 ELSE Head(s) + SumSeq(Tail(s))

\* df[col] as a sequence
Column(table, col) == [i \in 1..Len(table) |-> table[i][col]]

\* the rows of table whose column col equals v, in table order
RowsWhere(table, col, v) == SelectSeq(table, LAMBDA r : r[col] = v)

RECURSIVE SortedSeq(_)
SortedSeq(S) ==
    IF S = {} THEN <<>> ELSE <<SetMin(S)>> \o SortedSeq(S \ {SetMin(S)})

----------------------------------------------------------------------------
(* Lines 17-24 *)

product_prices ==
    [p \in {AllProducts[i] : i \in 1..Len(AllProducts)} |->
        CASE p = "Laptop" -> <<800, 1500>>
          [] p = "Smartphone" -> <<400, 900>>
          [] p = "Tablet" -> <<200, 600>>
          [] p = "Headphones" -> <<50, 300>>
          [] p = "Monitor" -> <<150, 800>>]

----------------------------------------------------------------------------
(* Lines 43-53: the data dictionary and the DataFrame *)

RECURSIVE Digits(_)
Digits(i) == IF i < 10 THEN <<i>> ELSE Append(Digits(i \div 10), i % 10)

RECURSIVE ZeroPad(_, _)
ZeroPad(ds, width) == IF Len(ds) >= width THEN ds ELSE ZeroPad(<<0>> \o ds, width)

\* f'TX-{i:05d}': the decimal digits of i, zero-padded to width 5, after "TX-"
TransactionID(i) == <<"TX-">> \o ZeroPad(Digits(i), 5)

\* range(n) has no element when n <= 0
RangeLen(n) == IF n > 0 THEN n ELSE 0

\* random.choice(seq) with the stream's index draw r in 0..len(seq)-1
Choice(seq, r) == seq[r + 1]

RawRow(i) ==
    [Transaction_ID |-> TransactionID(i),
     Date |-> start_date + rng.Date[i],
     Product |-> Choice(products, rng.Product[i]),
     Region |-> Choice(regions, rng.Region[i]),
     Units_Sold |-> rng.Units_Sold[i],
     Customer_ID |-> rng.Customer_ID[i]]

----------------------------------------------------------------------------
(* Lines 56-74: the derived columns *)

\* line 56: np.random.uniform(low, high) = low + (high - low) * f, in cents;
\* f is the stream's draw in tenths
UnitPrice(product, f) ==
    LET r == product_prices[product]
    IN (r[1] + ((r[2] - r[1]) * f) \div 10) * 100

\* line 57 with the factors dividing the price instead of multiplying it
UnitCostMarkup(price, u) == Max((price * 100) \div 90, (price * 100) \div u)

\* line 57: np.minimum(price * 0.9, price * u), in cents; u in percent
UnitCost(price, u) == Min((price * 90) \div 100, (price * u) \div 100)

\* line 62
IsHoliday(month) == IF month \in {12, 1} THEN 1 ELSE 0

\* line 63 with the weekend test off by one day (Friday taken for a weekend day)
SeasonalFactorFromFriday(is_holiday, day_of_week) ==
    10 + is_holiday * 3 + (IF day_of_week >= 4 THEN 1 ELSE 0) * 2

\* line 63: ten times (1 + Is_Holiday * 0.3 + (Day_of_Week > 4) * 0.2)
SeasonalFactor(is_holiday, day_of_week) ==
    10 + is_holiday * 3 + (IF day_of_week > 4 THEN 1 ELSE 0) * 2

\* line 63, in tenths of a unit
SeasonalUnits(units, is_holiday, day_of_week) ==
    units * SeasonalFactor(is_holiday, day_of_week)

\* line 69: Profit / Total_Sales * 100. Total_Sales is a multiple of 100 here
\* (prices are whole currency units), so this is the same quotient.
ProfitMargin(profit, total_sales) == profit \div (total_sales \div 100)

\* line 74
CohortMonth(date) == PeriodM(MonthBegin(date, -1))

DerivedRow(row, f, u) ==
    LET price == UnitPrice(row.Product, f)
        cost == UnitCost(price, u)
        dow == dayofweek(row.Date)
        month == ToDate(row.Date).month
        hol == IsHoliday(month)
        units == SeasonalUnits(row.Units_Sold, hol, dow)
        sales == units * price
        tcost == units * cost
        profit == sales - tcost
    IN [Transaction_ID |-> row.Transaction_ID,
        Date |-> row.Date,
        Product |-> row.Product,
        Region |-> row.Region,
        Customer_ID |-> row.Customer_ID,
        Unit_Price |-> price,
        Unit_Cost |-> cost,
        Day_of_Week |-> dow,
        Month |-> month,
        Is_Holiday |-> hol,
        Units_Sold |-> units,
        Total_Sales |-> sales,
        Total_Cost |-> tcost,
        Profit |-> profit,
        Profit_Margin |-> ProfitMargin(profit, sales),
        Month_Year |-> PeriodM(row.Date),
        Quarter |-> PeriodQ(row.Date),
        Cohort_Month |-> CohortMonth(row.Date)]

----------------------------------------------------------------------------
(* Lines 81-82: the integrity assertions *)

\* df['Unit_Cost'].le(df['Unit_Price']).all()
CostLePrice(table) == \A i \in 1..Len(table) : table[i].Unit_Cost <= table[i].Unit_Price

\* df.duplicated(subset=['Transaction_ID']).sum()
DuplicatedCount(table) ==
    Cardinality({i \in 1..Len(table) :
        \E j \in 1..(i - 1) : table[j].Transaction_ID = table[i].Transaction_ID})

----------------------------------------------------------------------------
(* Lines 85-95: the star schema *)

\* lines 85 and 88 without drop_duplicates()
KeepDuplicates(s) == s

\* drop_duplicates(): the first occurrence of every value, in order
RECURSIVE DropDuplicates(_)
DropDuplicates(s) ==
    IF s = <<>> THEN <<>>
    ELSE LET init == DropDuplicates(SubSeq(s, 1, Len(s) - 1))
             last == s[Len(s)]
         IN IF \E k \in 1..Len(init) : init[k] = last THEN init ELSE Append(init, last)

\* df[[col]].drop_duplicates().reset_index(drop=True), then idcol = index + base
Dimension(table, col, idcol, base) ==
    LET names == DropDuplicates(Column(table, col))
    IN [k \in 1..Len(names) |-> (col :> names[k]) @@ (idcol :> (k - 1) + base)]

\* left.merge(right, on=key): inner join, in the order of the left rows
RECURSIVE Merge(_, _, _)
Merge(left, right, key) ==
    IF left = <<>> THEN <<>>
    ELSE LET l == Head(left)
             hits == RowsWhere(right, key, l[key])
         IN [k \in 1..Len(hits) |-> l @@ hits[k]] \o Merge(Tail(left), right, key)

\* drop(columns=cols)
DropColumns(table, cols) ==
    [i \in 1..Len(table) |-> [c \in (DOMAIN table[i]) \ cols |-> table[i][c]]]

FactTable(table, pdim, rdim) ==
    DropColumns(Merge(Merge(table, pdim, "Product"), rdim, "Region"),
                {"Product", "Region"})

----------------------------------------------------------------------------
(* Lines 98-116: the aggregate views *)

\* groupby(key): the distinct keys in ascending order
GroupKeys(table, key) == SortedSeq({table[i][key] : i \in 1..Len(table)})

\* the 'first' reduction in place of 'sum'
GroupFirst(table, key, v, col) == RowsWhere(table, key, v)[1][col]

\* the 'sum' reduction of column col over the group of key value v
GroupSum(table, key, v, col) == SumSeq(Column(RowsWhere(table, key, v), col))

\* the 'mean' reduction (all margins of a run are equal, so the quotient is exact)
GroupMean(table, key, v, col) ==
    SumSeq(Column(RowsWhere(table, key, v), col)) \div Len(RowsWhere(table, key, v))

\* lines 98-104; line 104 renames Profit and Profit_Margin by position
SalesByProduct(fact, pdim) ==
    LET keys == GroupKeys(fact, "Product_ID")
        agg == [k \in 1..Len(keys) |->
                  [Product_ID |-> keys[k],
                   Total_Sales |-> GroupSum(fact, "Product_ID", keys[k], "Total_Sales"),
                   Total_Profit |-> GroupSum(fact, "Product_ID", keys[k], "Profit"),
                   Units_Sold |-> GroupSum(fact, "Product_ID", keys[k], "Units_Sold"),
                   Avg_Profit_Margin |->
                       GroupMean(fact, "Product_ID", keys[k], "Profit_Margin")]]
    IN Merge(agg, pdim, "Product_ID")

\* lines 106-109
SalesTrends(fact) ==
    LET keys == GroupKeys(fact, "Month_Year")
    IN [k \in 1..Len(keys) |->
          [Month_Year |-> keys[k],
           Total_Sales |-> GroupSum(fact, "Month_Year", keys[k], "Total_Sales"),
           Profit |-> GroupSum(fact, "Month_Year", keys[k], "Profit")]]

\* lines 111-116; line 116 renames Profit by position
SalesByRegion(fact, rdim) ==
    LET keys == GroupKeys(fact, "Region_ID")
        agg == [k \in 1..Len(keys) |->
                  [Region_ID |-> keys[k],
                   Total_Sales |-> GroupSum(fact, "Region_ID", keys[k], "Total_Sales"),
                   Total_Profit |-> GroupSum(fact, "Region_ID", keys[k], "Profit"),
                   Units_Sold |-> GroupSum(fact, "Region_ID", keys[k], "Units_Sold")]]
    IN Merge(agg, rdim, "Region_ID")

----------------------------------------------------------------------------
(* Lines 119-124: RFM *)

\* line 119 without the added day
SnapshotDateSameDay(fact) == SetMax({fact[i].Date : i \in 1..Len(fact)})

\* line 119: fact_table['Date'].max() + timedelta(days=1)
SnapshotDate(fact) == SetMax({fact[i].Date : i \in 1..Len(fact)}) + 1

\* line 121: (snapshot_date - x.max()).days over one customer's rows
Recency(snapshot, rows) == snapshot - SetMax({rows[i].Date : i \in 1..Len(rows)})

\* lines 120-124; Customer_ID is the index of the result
RFM(fact) ==
    LET keys == GroupKeys(fact, "Customer_ID")
        snapshot_date == SnapshotDate(fact)
    IN [k \in 1..Len(keys) |->
          [Customer_ID |-> keys[k],
           Recency |-> Recency(snapshot_date, RowsWhere(fact, "Customer_ID", keys[k])),
           Frequency |-> Len(RowsWhere(fact, "Customer_ID", keys[k])),
           Monetary |-> GroupSum(fact, "Customer_ID", keys[k], "Total_Sales")]]

\* lines 127-131
OutputFiles ==
    {"sales_fact_table.parquet", "product_dimension.parquet",
     "region_dimension.parquet", "sales_profitability_dashboard.xlsx"}

----------------------------------------------------------------------------
(* Initial states *)

\* the parameters the script itself sets on lines 11-15 are accepted by every
\* statement; the others are the inputs the specification calls invalid
ValidConfig(n, ps, rs, sd, ed) ==
    n >= 1 /\ ps # <<>> /\ rs # <<>> /\ ed >= sd

\* the streams of draws of a run of n records; indexes of random.choice are
\* 0-based
Streams(n, dates, nps, nrs, units, customers, prices, costs) ==
    [Date : [1..n -> dates],
     Product : [1..n -> 0..(nps - 1)],
     Region : [1..n -> 0..(nrs - 1)],
     Units_Sold : [1..n -> units],
     Customer_ID : [1..n -> customers],
     Unit_Price : [1..n -> prices],
     Unit_Cost : costs]

\* one fixed stream, for the runs that end before the draws matter
FixedStream(n) ==
    [Date |-> [i \in 1..n |-> 0],
     Product |-> [i \in 1..n |-> 0],
     Region |-> [i \in 1..n |-> 0],
     Units_Sold |-> [i \in 1..n |-> 1],
     Customer_ID |-> [i \in 1..n |-> 10000],
     Unit_Price |-> [i \in 1..n |-> 0],
     Unit_Cost |-> 60]

NoDraws ==
    [Date |-> 0, Product |-> 0, Region |-> 0, Units_Sold |-> 0, Customer_ID |-> 0,
     Unit_Price |-> 0, Unit_Cost |-> 0]

Start ==
    /\ draws = NoDraws
    /\ pc = "generate"
    /\ err = ""
    /\ df = <<>>
    /\ product_dim = <<>>
    /\ region_dim = <<>>
    /\ fact_table = <<>>
    /\ sales_by_product = <<>>
    /\ sales_trends = <<>>
    /\ sales_by_region = <<>>
    /\ rfm = <<>>
    /\ exported = {}

\* runs of up to MaxRecords records, over valid and invalid parameters
InitBatch ==
    /\ num_records \in -1..MaxRecords
    /\ products \in ProductCatalogs
    /\ regions \in RegionCatalogs
    /\ \E r \in DateRanges : start_date = r[1] /\ end_date = r[2]
    /\ IF ValidConfig(num_records, products, regions, start_date, end_date)
       THEN rng \in Streams(num_records, DateSamples, Len(products), Len(regions),
                            UnitSamples, CustomerSamples, PriceSamples, CostSamples)
       ELSE rng = FixedStream(RangeLen(num_records))
    /\ Start

\* runs of one record with the catalogs and the window of lines 12-15
InitSingle ==
    /\ num_records = 1
    /\ products = AllProducts
    /\ regions = AllRegions
    /\ start_date = StartDay
    /\ end_date = EndDay
    /\ \/ rng \in Streams(1, AllOffsets, Len(AllProducts), Len(AllRegions),
                          {1}, {10000}, {0}, {60})
       \/ rng \in Streams(1, CalendarSamples, Len(AllProducts), 1,
                          AllUnits, {10000}, WidePriceSamples, WideCostSamples)
    /\ Start

Init == InitBatch \/ InitSingle

\* Derived tables handed to the assertions of lines 81-82 that the lines above
\* them never produce: a transaction id may repeat and a unit cost may exceed
\* the unit price. They exercise the assertions' failing branches.
TamperedRows(n) ==
    {[DerivedRow([Transaction_ID |-> TransactionID(t), Date |-> d, Product |-> p,
                  Region |-> "North", Units_Sold |-> 7, Customer_ID |-> 10000],
                 9, 60)
        EXCEPT !.Unit_Cost = IF over THEN @ * 2 ELSE @] :
      t \in 1..n, d \in {0, 73}, p \in {"Laptop", "Smartphone"}, over \in BOOLEAN}

InitDerived ==
    /\ num_records \in 1..MaxRecords
    /\ products = SubSeq(AllProducts, 1, 2)
    /\ regions = SubSeq(AllRegions, 1, 2)
    /\ start_date = StartDay
    /\ end_date = EndDay
    /\ rng = FixedStream(num_records)
    /\ draws = [Date |-> num_records, Product |-> num_records, Region |-> num_records,
                Units_Sold |-> num_records, Customer_ID |-> num_records,
                Unit_Price |-> num_records, Unit_Cost |-> 1]
    /\ pc = "validate"
    /\ err = ""
    /\ df \in [1..num_records -> TamperedRows(num_records)]
    /\ product_dim = <<>>
    /\ region_dim = <<>>
    /\ fact_table = <<>>
    /\ sales_by_product = <<>>
    /\ sales_trends = <<>>
    /\ sales_by_region = <<>>
    /\ rfm = <<>>
    /\ exported = {}

----------------------------------------------------------------------------
(* The script, statement group by statement group *)

Fail(e) ==
    /\ pc' = "failed"
    /\ err' = e

\* lines 43-53. The dictionary's values are evaluated in order: line 45 raises
\* ValueError in random.randint when end < start, lines 46-47 raise IndexError
\* in random.choice on an empty catalog, line 48 raises ValueError for a
\* negative size; a comprehension over range(n) with n <= 0 draws nothing.
GenerateData ==
    /\ pc = "generate"
    /\ LET n == RangeLen(num_records)
       IN IF n > 0 /\ end_date - start_date < 0
          THEN /\ Fail("ValueError") /\ UNCHANGED <<draws, df>>
          ELSE IF n > 0 /\ products = <<>>
          THEN /\ Fail("IndexError")
               /\ draws' = [draws EXCEPT !.Date = n]
               /\ UNCHANGED df
          ELSE IF n > 0 /\ regions = <<>>
          THEN /\ Fail("IndexError")
               /\ draws' = [draws EXCEPT !.Date = n, !.Product = n]
               /\ UNCHANGED df
          ELSE IF num_records < 0
          THEN /\ Fail("ValueError") /\ UNCHANGED <<draws, df>>
          ELSE /\ df' = [i \in 1..n |-> RawRow(i)]
               /\ draws' = [draws EXCEPT !.Date = n, !.Product = n, !.Region = n,
                                         !.Units_Sold = n, !.Customer_ID = n]
               /\ pc' = "derive"
               /\ UNCHANGED err
    /\ UNCHANGED <<num_records, products, regions, start_date, end_date, rng,
                   product_dim, region_dim, fact_table, sales_by_product,
                   sales_trends, sales_by_region, rfm, exported>>

\* lines 56-78. Line 56 draws one price per record (Series.map calls the lambda
\* on every element), line 57 draws one cost factor for the whole column (a
\* scalar np.random.uniform); on a DataFrame without rows the Date column is
\* not datetime-typed and line 60 raises AttributeError.
DeriveMetrics ==
    /\ pc = "derive"
    /\ draws' = [draws EXCEPT !.Unit_Price = Len(df), !.Unit_Cost = 1]
    /\ IF df = <<>>
       THEN /\ Fail("AttributeError") /\ UNCHANGED df
       ELSE /\ df' = [i \in 1..Len(df) |->
                        DerivedRow(df[i], rng.Unit_Price[i], rng.Unit_Cost)]
            /\ pc' = "validate"
            /\ UNCHANGED err
    /\ UNCHANGED <<num_records, products, regions, start_date, end_date, rng,
                   product_dim, region_dim, fact_table, sales_by_product,
                   sales_trends, sales_by_region, rfm, exported>>

\* lines 81-82 with the assertions not evaluated
ValidateSkipped ==
    /\ pc = "validate"
    /\ pc' = "normalize"
    /\ UNCHANGED <<num_records, products, regions, start_date, end_date, rng,
                   draws, err, df, product_dim, region_dim, fact_table,
                   sales_by_product, sales_trends, sales_by_region, rfm, exported>>

\* lines 81-82
Validate ==
    /\ pc = "validate"
    /\ IF ~CostLePrice(df)
       THEN Fail("AssertionError: Unit cost exceeds unit price in some records!")
       ELSE IF DuplicatedCount(df) # 0
       THEN Fail("AssertionError: Duplicate transaction IDs detected!")
       ELSE pc' = "normalize" /\ UNCHANGED err
    /\ UNCHANGED <<num_records, products, regions, start_date, end_date, rng,
                   draws, df, product_dim, region_dim, fact_table,
                   sales_by_product, sales_trends, sales_by_region, rfm, exported>>

\* lines 85-95
Normalize ==
    /\ pc = "normalize"
    /\ product_dim' = Dimension(df, "Product", "Product_ID", 1000)
    /\ region_dim' = Dimension(df, "Region", "Region_ID", 2000)
    /\ fact_table' = FactTable(df, product_dim', region_dim')
    /\ pc' = "aggregate"
    /\ UNCHANGED <<num_records, products, regions, start_date, end_date, rng,
                   draws, err, df, sales_by_product, sales_trends,
                   sales_by_region, rfm, exported>>

\* lines 98-116
Aggregate ==
    /\ pc = "aggregate"
    /\ sales_by_product' = SalesByProduct(fact_table, product_dim)
    /\ sales_trends' = SalesTrends(fact_table)
    /\ sales_by_region' = SalesByRegion(fact_table, region_dim)
    /\ pc' = "rfm"
    /\ UNCHANGED <<num_records, products, regions, start_date, end_date, rng,
                   draws, err, df, product_dim, region_dim, fact_table, rfm,
                   exported>>

\* lines 119-124
Segment ==
    /\ pc = "rfm"
    /\ rfm' = RFM(fact_table)
    /\ pc' = "export"
    /\ UNCHANGED <<num_records, products, regions, start_date, end_date, rng,
                   draws, err, df, product_dim, region_dim, fact_table,
                   sales_by_product, sales_trends, sales_by_region, exported>>

\* lines 127-148
Export ==
    /\ pc = "export"
    /\ exported' = OutputFiles
    /\ pc' = "done"
    /\ UNCHANGED <<num_records, products, regions, start_date, end_date, rng,
                   draws, err, df, product_dim, region_dim, fact_table,
                   sales_by_product, sales_trends, sales_by_region, rfm>>

Next ==
    \/ GenerateData
    \/ DeriveMetrics
    \/ Validate
    \/ Normalize
    \/ Aggregate
    \/ Segment
    \/ Export

Spec == Init /\ [][Next]_vars

\* the script started at line 81 on any derived table as well
SpecIntegrity == (Init \/ InitDerived) /\ [][Next]_vars

----------------------------------------------------------------------------
(* Properties *)

\* the positions at which df holds the derived columns of lines 56-74
DerivedStages == {"validate", "normalize", "aggregate", "rfm", "export", "done"}

\* the positions after lines 85-95
NormalizedStages == {"aggregate", "rfm", "export", "done"}

\* the positions after lines 98-116
AggregatedStages == {"rfm", "export", "done"}

\* the positions after lines 119-124
SegmentedStages == {"export", "done"}

Rows(table) == 1..Len(table)

\* C1: once the metrics are derived, every transaction has unit cost <= unit
\* price, for every record count and every stream of draws, and the assertion
\* of line 81 never ends the run.
C1_CostAtMostPrice ==
    /\ pc \in DerivedStages => \A i \in Rows(df) : df[i].Unit_Cost <= df[i].Unit_Price
    /\ err # "AssertionError: Unit cost exceeds unit price in some records!"

\* a finished run of MaxRecords records whose cost factor is the largest sampled
C1_Witness ==
    /\ pc = "done"
    /\ Len(df) = MaxRecords
    /\ rng.Unit_Cost = 89
    /\ \A i \in Rows(df) : df[i].Unit_Cost < df[i].Unit_Price /\ df[i].Unit_Cost > 0

\* C2: aggregation conserves profit: the profit summed over the derived
\* transactions, over the fact table, over the by-product view, over the
\* by-region view and over the by-month view are all equal.
C2_ProfitConserved ==
    pc \in AggregatedStages =>
        LET total == SumSeq(Column(fact_table, "Profit"))
        IN /\ total = SumSeq(Column(df, "Profit"))
           /\ total = SumSeq(Column(sales_by_product, "Total_Profit"))
           /\ total = SumSeq(Column(sales_by_region, "Total_Profit"))
           /\ total = SumSeq(Column(sales_trends, "Profit"))

\* a finished run with two records of one product and one region in two months
C2_Witness ==
    /\ pc = "done"
    /\ Len(fact_table) >= 2
    /\ Len(sales_by_product) = 1
    /\ Len(sales_by_region) = 1
    /\ Len(sales_trends) = 2
    /\ SumSeq(Column(sales_trends, "Profit")) > 0

FirstIndex(seq, v) == SetMin({i \in 1..Len(seq) : seq[i] = v})

\* the rows of dim whose key column idcol holds id
Resolves(dim, idcol, id) == {k \in Rows(dim) : dim[k][idcol] = id}

\* dim lists the values of df's column col once each, in order of first
\* appearance, with keys base, base + 1, ...
DimensionOf(dim, col, idcol, base) ==
    /\ {dim[k][col] : k \in Rows(dim)} = {df[i][col] : i \in Rows(df)}
    /\ \A k \in Rows(dim) : dim[k][idcol] = base + (k - 1)
    /\ \A j, k \in Rows(dim) :
          j < k => FirstIndex(Column(df, col), dim[j][col])
                     < FirstIndex(Column(df, col), dim[k][col])
    /\ \A j, k \in Rows(dim) : j # k => dim[j][idcol] # dim[k][idcol]

\* C3: normalization keeps one fact row per derived transaction, with the
\* same transaction ids; each row's product key and region key resolve to
\* exactly one dimension row, the one holding the transaction's product and
\* region name; dimension keys are unique and assigned from 1000 and 2000 in
\* order of first appearance.
C3_StarSchema ==
    pc \in NormalizedStages =>
        /\ Len(fact_table) = num_records
        /\ Len(fact_table) = Len(df)
        /\ \A i \in Rows(df) :
              /\ fact_table[i].Transaction_ID = df[i].Transaction_ID
              /\ \E k \in Rows(product_dim) :
                    /\ Resolves(product_dim, "Product_ID", fact_table[i].Product_ID) = {k}
                    /\ product_dim[k].Product = df[i].Product
              /\ \E k \in Rows(region_dim) :
                    /\ Resolves(region_dim, "Region_ID", fact_table[i].Region_ID) = {k}
                    /\ region_dim[k].Region = df[i].Region
        /\ DimensionOf(product_dim, "Product", "Product_ID", 1000)
        /\ DimensionOf(region_dim, "Region", "Region_ID", 2000)

\* a finished run whose first record is of the catalog's second product and
\* second region, and whose second record is of the first
C3_Witness ==
    /\ pc = "done"
    /\ Len(df) >= 2
    /\ df[1].Product = "Smartphone" /\ df[2].Product = "Laptop"
    /\ df[1].Region = "South" /\ df[2].Region = "North"
    /\ fact_table[1].Product_ID = 1000 /\ fact_table[2].Product_ID = 1001
    /\ fact_table[1].Region_ID = 2000 /\ fact_table[2].Region_ID = 2001

\* C4: the RFM table has exactly one row per distinct customer id of the fact
\* table and no other row; every row has Frequency >= 1 and Recency >= 1,
\* Recency being the days from the customer's latest transaction date to the
\* snapshot date, the latest transaction date of the whole table plus one.
C4_RFM ==
    pc \in SegmentedStages =>
        LET customers == {fact_table[i].Customer_ID : i \in Rows(fact_table)}
            latest == SetMax({fact_table[i].Date : i \in Rows(fact_table)})
            own(c) == {i \in Rows(fact_table) : fact_table[i].Customer_ID = c}
        IN /\ {rfm[k].Customer_ID : k \in Rows(rfm)} = customers
           /\ Len(rfm) = Cardinality(customers)
           /\ \A k \in Rows(rfm) :
                 /\ rfm[k].Frequency >= 1
                 /\ rfm[k].Frequency = Cardinality(own(rfm[k].Customer_ID))
                 /\ rfm[k].Recency >= 1
                 /\ rfm[k].Recency =
                      (latest + 1)
                        - SetMax({fact_table[i].Date : i \in own(rfm[k].Customer_ID)})

\* a finished run with two customers, one of them last seen before the
\* latest transaction date
C4_Witness ==
    /\ pc = "done"
    /\ Len(rfm) = 2
    /\ \E k \in Rows(rfm) : rfm[k].Recency = 1
    /\ \E k \in Rows(rfm) : rfm[k].Recency > 1

\* the month before the month of day number n, as a month label
PrecedingMonth(n) ==
    LET c == ToDate(n)
    IN IF c.month = 1 THEN (c.year - 1) * 100 + 12 ELSE c.year * 100 + (c.month - 1)

\* C5: the cohort-month label of every transaction is the calendar month
\* preceding the month of the transaction's date.
C5_CohortIsPrecedingMonth ==
    pc \in DerivedStages =>
        \A i \in Rows(df) : df[i].Cohort_Month = PrecedingMonth(df[i].Date)

\* C6: the quantity of every transaction is a positive integer after the
\* seasonal adjustment (Units_Sold is held in tenths of a unit).
C6_QuantityIsPositiveInteger ==
    pc \in DerivedStages =>
        \A i \in Rows(df) : df[i].Units_Sold > 0 /\ df[i].Units_Sold % 10 = 0

\* day number n is a Saturday or a Sunday: day 0, 2023-01-01, is a Sunday
IsWeekend(n) == n % 7 \in {6, 0}

\* day number n lies in December or January
InHolidayMonths(n) == ToDate(n).month = 12 \/ ToDate(n).month = 1

\* C7: the seasonal adjustment multiplies the base quantity drawn for the
\* record once, by 1 + 0.3 h + 0.2 w, h = 1 iff the date lies in December or
\* January, w = 1 iff it is a Saturday or Sunday (quantities in tenths).
C7_SeasonalFactor ==
    pc \in DerivedStages =>
        \A i \in Rows(df) :
            LET h == IF InHolidayMonths(df[i].Date) THEN 1 ELSE 0
                w == IF IsWeekend(df[i].Date) THEN 1 ELSE 0
            IN /\ df[i].Units_Sold = rng.Units_Sold[i] * (10 + 3 * h + 2 * w)
               /\ df[i].Units_Sold \in {rng.Units_Sold[i] * f : f \in {10, 12, 13, 15}}
               /\ df[i].Is_Holiday = h

\* a finished run whose record falls on Saturday 2023-12-02 with base
\* quantity 10: 15 units
C7_Witness ==
    /\ pc = "done"
    /\ Len(df) = 1
    /\ ToDate(df[1].Date) = [year |-> 2023, month |-> 12, day |-> 2]
    /\ rng.Units_Sold[1] = 10
    /\ df[1].Units_Sold = 150

TotalDraws ==
    draws.Date + draws.Product + draws.Region + draws.Units_Sold
      + draws.Customer_ID + draws.Unit_Price + draws.Unit_Cost

\* C8: with invalid parameters the run ends before any synthesis step: no
\* random draw is made, no table or output is produced, and the run never
\* completes normally.
C8_InvalidConfigRejectedFirst ==
    ~ValidConfig(num_records, products, regions, start_date, end_date) =>
        /\ TotalDraws = 0
        /\ df = <<>> /\ fact_table = <<>> /\ rfm = <<>> /\ exported = {}
        /\ pc \in {"generate", "failed"}

\* C9: the cost factor is drawn once per record.
C9_CostDrawPerRecord ==
    pc \in DerivedStages => draws.Unit_Cost = Len(df)

\* the order of the script's positions
StageOrder ==
    {<<"generate", "derive">>, <<"derive", "validate">>, <<"validate", "normalize">>,
     <<"normalize", "aggregate">>, <<"aggregate", "rfm">>, <<"rfm", "export">>,
     <<"export", "done">>,
     <<"generate", "failed">>, <<"derive", "failed">>, <<"validate", "failed">>}

HasDerivedColumns(table) == table # <<>> /\ "Unit_Cost" \in DOMAIN table[1]

\* some record has unit cost > unit price, or two records share an identity
IntegrityViolated(table) ==
    \/ \E i \in Rows(table) : table[i].Unit_Cost > table[i].Unit_Price
    \/ \E i, j \in Rows(table) :
          i # j /\ table[i].Transaction_ID = table[j].Transaction_ID

NothingNormalized ==
    /\ product_dim = <<>> /\ region_dim = <<>> /\ fact_table = <<>>
    /\ sales_by_product = <<>> /\ sales_trends = <<>> /\ sales_by_region = <<>>
    /\ rfm = <<>> /\ exported = {}

\* each table is written by its own stage only, and the stages follow in order
StepInOrder ==
    /\ pc' # pc => <<pc, pc'>> \in StageOrder
    /\ df' # df => pc \in {"generate", "derive"}
    /\ <<product_dim, region_dim, fact_table>>' # <<product_dim, region_dim, fact_table>>
          => pc = "normalize"
    /\ <<sales_by_product, sales_trends, sales_by_region>>'
          # <<sales_by_product, sales_trends, sales_by_region>> => pc = "aggregate"
    /\ rfm' # rfm => pc = "rfm"
    /\ exported' # exported => pc = "export"

\* C10: the stages run in the order Synthesizer, Deriver, Validator,
\* Normalizer, Aggregator, RFM Segmenter; and validation is fatal: while the
\* derived table holds a record with unit cost > unit price or two records of
\* one identity, the run is at the Validator or has failed, and no dimension
\* table, fact table, aggregate view, RFM table or export exists.
C10_OrderedStagesFatalValidation ==
    /\ [](HasDerivedColumns(df) /\ IntegrityViolated(df)
            => NothingNormalized /\ pc \in {"validate", "failed"})
    /\ [][StepInOrder]_vars

\* a run ended by the assertion of line 81 on a table whose first record costs
\* more than its price
C10_Witness ==
    /\ pc = "failed"
    /\ err = "AssertionError: Unit cost exceeds unit price in some records!"
    /\ HasDerivedColumns(df)
    /\ df[1].Unit_Cost > df[1].Unit_Price
    /\ NothingNormalized

====
